---- MODULE Spec2Model ----
(***************************************************************************)
(* Model of backend/app.py: the asynchronous image-generation job engine.  *)
(*                                                                         *)
(* State: the in-memory job store `tasks`, the global credential           *)
(* `user_api_key`, one background coroutine (_execute_generation) per      *)
(* submitted job, and the requests those coroutines sent to the mirrors.   *)
(* The coroutines run on one event loop: a step of the model is the code   *)
(* between two suspension points (await), so every step is atomic.         *)
(***************************************************************************)
EXTENDS Integers, Sequences, FiniteSets, TLC

\* ---------------------------------------------------------------- bounds
MaxJobs == 1          \* submissions accepted in one behaviour
MaxReads == 1         \* times one endpoint attempt suspends for more of the body
MaxSecretLen == 16    \* longest credential a caller sets
MaxImages == 3        \* reference images in one generate request
MaxListed == 3        \* jobs submitted before the store is listed

\* ------------------------------------------------------ program constants
NumHosts == 2         \* len(GOOGLE_API_HOSTS)
ChunkSize == 8192     \* aiter_bytes(chunk_size=8192)
ProgressCreated == 10
ProgressAttempt == 30
ProgressCap == 90
ProgressParsed == 95
ProgressDone == 100
BytesScale == 50000
ProgressSpan == 60
MaskThreshold == 12   \* len(user_api_key) > 12
MaskHead == 8         \* user_api_key[:8]
MaskTail == 4         \* user_api_key[-4:]
PromptPreview == 50   \* task.get("prompt", "")[:50]

JobIds == 1..MaxJobs
Hosts == 1..NumHosts

\* the ids a caller may name: every issued id, and 0 for one never issued
CallerIds == 0..MaxJobs

\* Python's None, and an absent optional field
None == <<>>

\* credentials a caller may set, as sequences of characters; the empty one
\* is the unset credential
Keys == {<<>>, <<"k", "1">>}

\* full chunks handed over by one read of the stream before the coroutine
\* suspends again: one, or enough to pass the progress cap
Bursts == {1, 7}

\* prompts a caller may submit, as sequences of characters
Prompts == { <<>>, <<" ">>, <<" ", "\t">>, <<" ", "a">> }

Whitespace == {" ", "\t", "\n"}

\* str.strip(): drop leading and trailing whitespace
RECURSIVE LStrip(_)
LStrip(s) ==
    IF s # <<>> /\ Head(s) \in Whitespace THEN LStrip(Tail(s)) ELSE s

RECURSIVE RStrip(_)
RStrip(s) ==
    IF s # <<>> /\ s[Len(s)] \in Whitespace
    THEN RStrip(SubSeq(s, 1, Len(s) - 1))
    ELSE s

Strip(s) == RStrip(LStrip(s))

Min(a, b) == IF a < b THEN a ELSE b

\* ------------------------------------------------------------- responses
\* The image bytes a mirror serves carry the mirror that served them.
ImagePart(h) == [kind |-> "inlineData", mimeType |-> "image/png", data |-> <<"png", h>>]
TextPart(t) == [kind |-> "text", text |-> t]
OtherPart == [kind |-> "other"]

\* Decoded bodies of a 200 response of mirror h.  json = FALSE is a body that
\* json.loads rejects.
Body(json, cands, parts, block) ==
    [json |-> json, hasCandidates |-> cands, parts |-> parts, blockReason |-> block]

Bodies(h) ==
    { Body(FALSE, FALSE, <<>>, ""),
      Body(TRUE, FALSE, <<>>, "SAFETY"),
      Body(TRUE, FALSE, <<>>, ""),
      Body(TRUE, TRUE, <<>>, ""),
      Body(TRUE, TRUE, <<OtherPart>>, ""),
      Body(TRUE, TRUE, <<TextPart("t1")>>, ""),
      Body(TRUE, TRUE, <<TextPart("t1")>>, "SAFETY"),
      Body(TRUE, TRUE, <<ImagePart(h)>>, ""),
      Body(TRUE, TRUE, <<TextPart("t1"), ImagePart(h), TextPart("t2")>>, "") }

AllBodies == UNION { Bodies(h) : h \in Hosts }

DataUrl(part) == <<"data", part.mimeType, part.data>>

\* the scan of candidates[0].content.parts: the last inlineData part wins,
\* the text parts are collected in order
RECURSIVE ScanImage(_, _)
ScanImage(parts, image_data) ==
    IF parts = <<>> THEN image_data
    ELSE ScanImage(Tail(parts),
                   IF Head(parts).kind = "inlineData"
                   THEN DataUrl(Head(parts)) ELSE image_data)

RECURSIVE ScanText(_)
ScanText(parts) ==
    IF parts = <<>> THEN <<>>
    ELSE (IF Head(parts).kind = "text" THEN <<Head(parts).text>> ELSE <<>>)
         \o ScanText(Tail(parts))

\* Classify with the text test ahead of the image test
ClassifyTextFirst(body) ==
    IF ~body.json THEN [class |-> "decode_error", image |-> None, text |-> <<>>]
    ELSE IF ~body.hasCandidates
    THEN IF body.blockReason # ""
         THEN [class |-> "safety_blocked", image |-> None, text |-> <<>>]
         ELSE [class |-> "empty", image |-> None, text |-> <<>>]
    ELSE LET image_data == ScanImage(body.parts, None)
             text_response == ScanText(body.parts)
         IN  IF text_response # <<>>
             THEN [class |-> "text_only", image |-> None, text |-> text_response]
             ELSE IF image_data # None
             THEN [class |-> "image", image |-> image_data, text |-> text_response]
             ELSE [class |-> "malformed", image |-> None, text |-> <<>>]

\* Classify with no class of its own for a text-only answer
ClassifyDropText(body) ==
    IF ~body.json THEN [class |-> "decode_error", image |-> None, text |-> <<>>]
    ELSE IF ~body.hasCandidates
    THEN IF body.blockReason # ""
         THEN [class |-> "safety_blocked", image |-> None, text |-> <<>>]
         ELSE [class |-> "empty", image |-> None, text |-> <<>>]
    ELSE LET image_data == ScanImage(body.parts, None)
             text_response == ScanText(body.parts)
         IN  IF image_data # None
             THEN [class |-> "image", image |-> image_data, text |-> text_response]
             ELSE [class |-> "malformed", image |-> None, text |-> <<>>]

\* what the engine makes of a fully read body
Classify(body) ==
    IF ~body.json THEN [class |-> "decode_error", image |-> None, text |-> <<>>]
    ELSE IF ~body.hasCandidates
    THEN IF body.blockReason # ""
         THEN [class |-> "safety_blocked", image |-> None, text |-> <<>>]
         ELSE [class |-> "empty", image |-> None, text |-> <<>>]
    ELSE LET image_data == ScanImage(body.parts, None)
             text_response == ScanText(body.parts)
         IN  IF image_data # None
             THEN [class |-> "image", image |-> image_data, text |-> text_response]
             ELSE IF text_response # <<>>
             THEN [class |-> "text_only", image |-> None, text |-> text_response]
             ELSE [class |-> "malformed", image |-> None, text |-> <<>>]

\* the failure reason of an attempt on mirror h
Reason(kind, h) == <<kind, h>>

\* ----------------------------------------------------------------- state
VARIABLES
    tasks,          \* the job store: task_id -> record
    user_api_key,   \* the global credential
    nextId,         \* the next fresh task_id (uuid4 never repeats)
    eng,            \* task_id -> frame of its _execute_generation coroutine
    requests,       \* task_id -> the POSTs its coroutine sent, in order
    reply,          \* HTTP status of the last caller request (0: none yet)
    out,            \* body of the last caller response, where the model keeps
                    \* it (check-key, list), or the payload the builder of
                    \* generate_image produced; None after every other request
    arg             \* request body handed to the payload builder of
                    \* generate_image, where the model keeps it

vars == <<tasks, user_api_key, nextId, eng, requests, reply, out, arg>>

Terminal(status) == status \in {"completed", "failed"}

\* the record generate_image stores
NewTask(prompt, now) ==
    [status |-> "processing", progress |-> ProgressCreated, result_url |-> None,
     result_base64 |-> None, error |-> None, created_at |-> now,
     prompt |-> prompt, model |-> "gemini-3-pro-image-preview", thinking |-> None]

\* the frame of a coroutine that has not run yet
NewFrame(key) ==
    [pc |-> "loop", host |-> 1, content |-> 0, reads |-> 0, last_error |-> None, headers |-> key]

\* Ended with a job whose mirrors all failed started over
EndedRetry(how) ==
    IF how = "finished"
    THEN [pc |-> "loop", host |-> 1, content |-> 0, reads |-> 0, last_error |-> None, headers |-> <<"k", "1">>]
    ELSE [pc |-> how, host |-> 0, content |-> 0, reads |-> 0, last_error |-> None, headers |-> <<>>]

\* the frame of a coroutine that ended: "returned" (line 261), "finished"
\* (fell off the end after line 277) or "raised" (unhandled exception)
Ended(how) ==
    [pc |-> how, host |-> 0, content |-> 0, reads |-> 0, last_error |-> None, headers |-> <<>>]

\* Validate without the strip() of the prompt
ValidateNoStrip(key, prompt) ==
    IF key = <<>> THEN "no_key"
    ELSE IF prompt = <<>> THEN "empty_prompt"
    ELSE "ok"

\* the two checks at the top of generate_image
Validate(key, prompt) ==
    IF key = <<>> THEN "no_key"
    ELSE IF Strip(prompt) = <<>> THEN "empty_prompt"
    ELSE "ok"

\* StreamProgress without the cap
StreamProgressNoCap(bytes) ==
    ProgressAttempt + (bytes * ProgressSpan) \div BytesScale

\* progress estimated from the bytes read so far: int(len / 50000 * 60) in
\* floating point is the integer quotient for every length below 50000, and
\* at least 60 from there on
StreamProgress(bytes) ==
    Min(ProgressAttempt + (bytes * ProgressSpan) \div BytesScale, ProgressCap)

\* CompletedRecord without the progress write
CompletedRecordNoProgress(rec, image_data, text_response) ==
    [rec EXCEPT !.status = "completed",
                !.result_base64 = image_data,
                !.thinking = IF text_response # <<>> THEN text_response ELSE @]

\* CompletedRecord with the image written to the other result field
CompletedRecordWrongField(rec, image_data, text_response) ==
    [rec EXCEPT !.status = "completed",
                !.progress = ProgressDone,
                !.result_url = image_data,
                !.thinking = IF text_response # <<>> THEN text_response ELSE @]

\* the writes of the success branch
CompletedRecord(rec, image_data, text_response) ==
    [rec EXCEPT !.status = "completed",
                !.progress = ProgressDone,
                !.result_base64 = image_data,
                !.thinking = IF text_response # <<>> THEN text_response ELSE @]

\* FailedRecord without the status write
FailedRecordNoStatus(rec, last_error) ==
    [rec EXCEPT !.error = IF last_error # None THEN last_error
                          ELSE Reason("all_hosts_failed", 0)]

\* the writes after the loop
FailedRecord(rec, last_error) ==
    [rec EXCEPT !.status = "failed",
                !.error = IF last_error # None THEN last_error
                          ELSE Reason("all_hosts_failed", 0)]

\* NextHost keeping the first failure reason instead of the last
NextHostFirstError(e, reason) ==
    [e EXCEPT !.pc = "loop", !.host = @ + 1, !.content = 0, !.reads = 0,
              !.last_error = IF @ = None THEN reason ELSE @]

\* NextHost trying the same mirror again
NextHostSameHost(e, reason) ==
    [e EXCEPT !.pc = "loop", !.content = 0, !.reads = 0, !.last_error = reason]

\* `continue`: the frame once an attempt on its mirror failed with `reason`
NextHost(e, reason) ==
    [e EXCEPT !.pc = "loop", !.host = @ + 1, !.content = 0, !.reads = 0,
              !.last_error = reason]

\* AfterClassify without the return of the success branch
AfterClassifyNoReturn(e, c) ==
    NextHost(e, IF c.class = "image" THEN e.last_error ELSE Reason(c.class, e.host))

\* the frame after a body was classified
AfterClassify(e, c) ==
    IF c.class = "image" THEN Ended("returned")
    ELSE NextHost(e, Reason(c.class, e.host))

\* AttemptHeaders reading the global credential at the time of the request
AttemptHeadersGlobal(e, current_key) == current_key

\* the credential header of a request: the headers dict built by
\* generate_image and passed to the coroutine, whatever the global is by now
AttemptHeaders(e, current_key) == e.headers

Init ==
    /\ tasks = <<>>
    /\ user_api_key \in Keys
    /\ nextId = 1
    /\ eng = <<>>
    /\ requests = <<>>
    /\ reply = 0
    /\ out = None
    /\ arg = None

\* ---------------------------------------------------------- caller requests
\* POST /api/generate
Submit(prompt) ==
    IF Validate(user_api_key, prompt) # "ok"
    THEN /\ reply' = 400
         /\ out' = None
         /\ UNCHANGED <<tasks, user_api_key, nextId, eng, requests, arg>>
    ELSE /\ nextId <= MaxJobs
         /\ tasks' = (nextId :> NewTask(prompt, nextId)) @@ tasks
         /\ eng' = (nextId :> NewFrame(user_api_key)) @@ eng
         /\ requests' = (nextId :> <<>>) @@ requests
         /\ nextId' = nextId + 1
         /\ reply' = 200
         /\ out' = None
         /\ UNCHANGED <<user_api_key, arg>>

\* Poll handing a finished job over once: the record is dropped with the answer
PollPop(id) ==
    /\ reply' = IF id \in DOMAIN tasks THEN 200 ELSE 404
    /\ out' = None
    /\ tasks' = IF id \in DOMAIN tasks /\ Terminal(tasks[id].status)
                 THEN [t \in DOMAIN tasks \ {id} |-> tasks[t]]
                 ELSE tasks
    /\ UNCHANGED <<user_api_key, nextId, eng, requests, arg>>

\* GET /api/task/{task_id}
Poll(id) ==
    /\ reply' = IF id \in DOMAIN tasks THEN 200 ELSE 404
    /\ out' = None
    /\ UNCHANGED <<tasks, user_api_key, nextId, eng, requests, arg>>

\* GET /api/tasks
List ==
    /\ reply' = 200
    /\ out' = None
    /\ UNCHANGED <<tasks, user_api_key, nextId, eng, requests, arg>>

\* Delete answering 200 without removing the record
DeleteKeep(id) ==
    IF id \notin DOMAIN tasks
    THEN /\ reply' = 404
         /\ out' = None
         /\ UNCHANGED <<tasks, user_api_key, nextId, eng, requests, arg>>
    ELSE /\ reply' = 200
         /\ out' = None
         /\ UNCHANGED <<tasks, user_api_key, nextId, eng, requests, arg>>

\* DELETE /api/task/{task_id}
Delete(id) ==
    IF id \notin DOMAIN tasks
    THEN /\ reply' = 404
         /\ out' = None
         /\ UNCHANGED <<tasks, user_api_key, nextId, eng, requests, arg>>
    ELSE /\ tasks' = [t \in DOMAIN tasks \ {id} |-> tasks[t]]
         /\ reply' = 200
         /\ out' = None
         /\ UNCHANGED <<user_api_key, nextId, eng, requests, arg>>

\* POST /api/set-key
SetKey(key) ==
    /\ user_api_key' = key
    /\ reply' = 200
    /\ out' = None
    /\ UNCHANGED <<tasks, nextId, eng, requests, arg>>

\* ------------------------------------------------------ the payload builder
\* A reference image is a string, kept as its sequence of tokens: a token is
\* one of the literals the pattern of line 136 spells out ("data:", "image/",
\* ";base64,"), a run of word characters, or one other character.
WordTokens == {"png", "jpeg", "svg", "xml", "plain", "x", "AAAA", "BBBB", "CCCC", "DDDD"}

PngUrl == <<"data:", "image/", "png", ";base64,", "AAAA">>
JpegUrl == <<"data:", "image/", "jpeg", ";base64,", "BBBB">>
SvgUrl == <<"data:", "image/", "svg", "+", "xml", ";base64,", "CCCC">>
NoPayloadUrl == <<"data:", "image/", "png", ";base64,">>
TextUrl == <<"data:", "text/", "plain", ";base64,", "DDDD">>
HttpUrl == <<"https://", "x", "/", "x", ".", "png">>

ImageUrls == {PngUrl, JpegUrl, SvgUrl, NoPayloadUrl, TextUrl, HttpUrl}

ImageLists == UNION { [1..n -> ImageUrls] : n \in 0..MaxImages }

\* the bodies of POST /api/generate the builder is run on
GenerateRequests == [prompt : Prompts, reference_images : ImageLists]

\* \w+ at position i: the number of word tokens it consumes
RECURSIVE WordRun(_, _)
WordRun(s, i) ==
    IF i <= Len(s) /\ s[i] \in WordTokens THEN 1 + WordRun(s, i + 1) ELSE 0

\* re.match(r"data:(image/\w+);base64,(.+)", img): <<group 1, group 2>>, or
\* None without a match
Match(img) ==
    LET k == WordRun(img, 3) IN
    IF /\ Len(img) >= 2
       /\ img[1] = "data:"
       /\ img[2] = "image/"
       /\ k >= 1
       /\ Len(img) >= 4 + k
       /\ img[3 + k] = ";base64,"
    THEN <<SubSeq(img, 2, 2 + k), SubSeq(img, 4 + k, Len(img))>>
    ELSE None

InlinePart(match) == [kind |-> "inlineData", mimeType |-> match[1], data |-> match[2]]

\* the loop over request.reference_images: parts.insert(0, ...)
RECURSIVE InsertImages(_, _)
InsertImages(images, parts) ==
    IF images = <<>> THEN parts
    ELSE LET img_data == Head(images) IN
         InsertImages(Tail(images),
                      IF /\ img_data # <<>>
                         /\ img_data[1] = "data:"
                         /\ Match(img_data) # None
                      THEN <<InlinePart(Match(img_data))>> \o parts
                      ELSE parts)

\* payload["contents"][0]["parts"]
BuildParts(prompt, reference_images) ==
    InsertImages(reference_images, <<TextPart(prompt)>>)

BuildInit ==
    /\ tasks = <<>>
    /\ user_api_key \in Keys
    /\ nextId = 1
    /\ eng = <<>>
    /\ requests = <<>>
    /\ reply = 0
    /\ out = None
    /\ arg \in GenerateRequests

\* lines 123-145 of generate_image, run on the request body arg
BuildPayload ==
    /\ out' = BuildParts(arg.prompt, arg.reference_images)
    /\ UNCHANGED <<tasks, user_api_key, nextId, eng, requests, reply, arg>>

BuildNext == BuildPayload

\* the payload builder alone, on every request body
BuildSpec == BuildInit /\ [][BuildNext]_vars

\* ------------------------------------------------------------ the listing
\* seq[:limit]
Slice(seq, limit) ==
    IF limit >= 0
    THEN SubSeq(seq, 1, Min(limit, Len(seq)))
    ELSE SubSeq(seq, 1, Len(seq) + limit)

\* SortedDesc without reverse=True
RECURSIVE SortedAsc(_, _)
SortedAsc(store, ids) ==
    IF ids = {} THEN <<>>
    ELSE LET first == CHOOSE j \in ids : \A k \in ids :
                          \/ store[j].created_at < store[k].created_at
                          \/ store[j].created_at = store[k].created_at /\ j <= k
         IN  <<first>> \o SortedAsc(store, ids \ {first})

\* sorted(tasks.items(), key=created_at, reverse=True): the ids, newest
\* first; the sort is stable, so equal keys stay in insertion order
RECURSIVE SortedDesc(_, _)
SortedDesc(store, ids) ==
    IF ids = {} THEN <<>>
    ELSE LET first == CHOOSE j \in ids : \A k \in ids :
                          \/ store[j].created_at > store[k].created_at
                          \/ store[j].created_at = store[k].created_at /\ j <= k
         IN  <<first>> \o SortedDesc(store, ids \ {first})

\* one element of the list list_tasks returns
Entry(id, rec) ==
    [task_id |-> id, status |-> rec.status, progress |-> rec.progress,
     result_url |-> rec.result_url,
     prompt |-> SubSeq(rec.prompt, 1, Min(PromptPreview, Len(rec.prompt))),
     created_at |-> rec.created_at]

ListResponse(store, limit) ==
    LET sorted_tasks == Slice(SortedDesc(store, DOMAIN store), limit) IN
    [i \in 1..Len(sorted_tasks) |-> Entry(sorted_tasks[i], store[sorted_tasks[i]])]

\* GET /api/tasks?limit=..., with the body of the response kept
ListTasks(limit) ==
    /\ out' = ListResponse(tasks, limit)
    /\ reply' = 200
    /\ UNCHANGED <<tasks, user_api_key, nextId, eng, requests, arg>>

ListLimits == (0 - 1)..(MaxListed + 1)

\* MaxListed jobs were submitted at distinct times and some of them deleted
\* again, before any of their coroutines ran
ListInit ==
    \E S \in SUBSET (1..MaxListed) : \E when \in [S -> 1..MaxListed] :
        /\ \A j, k \in S : j # k => when[j] # when[k]
        /\ tasks = [j \in S |-> NewTask(<<" ", "a">>, when[j])]
        /\ user_api_key = <<"k", "1">>
        /\ nextId = MaxListed + 1
        /\ eng = [j \in 1..MaxListed |-> NewFrame(<<"k", "1">>)]
        /\ requests = [j \in 1..MaxListed |-> <<>>]
        /\ reply = 0
        /\ out = None
        /\ arg = None

ListNext == \E limit \in ListLimits : ListTasks(limit)

\* the listing alone, over every store of up to MaxListed jobs
ListSpec == ListInit /\ [][ListNext]_vars

\* ---------------------------------------------------------- the credential
Letters ==
    <<"a", "b", "c", "d", "e", "f", "g", "h", "i", "j", "k", "l", "m", "n",
      "o", "p", "q", "r", "s", "t">>

\* a credential of n characters whose last d characters are dots
Secret(n, d) == [i \in 1..n |-> IF i > n - d THEN "." ELSE Letters[i]]

\* the credentials a caller sets through /api/set-key
Secrets == { Secret(n, d) : n \in 0..MaxSecretLen, d \in 0..MaxSecretLen }

\* the masked form of a non-empty credential
Mask(key) ==
    IF Len(key) > MaskThreshold
    THEN SubSeq(key, 1, MaskHead) \o <<".", ".", ".">>
         \o SubSeq(key, Len(key) - MaskTail + 1, Len(key))
    ELSE <<"*", "*", "*">>

\* the body check_api_key returns
CheckKeyResponse(key) ==
    [has_key |-> key # <<>>,
     masked_key |-> IF key # <<>> THEN Mask(key) ELSE <<>>]

\* GET /api/check-key
CheckKey ==
    /\ out' = CheckKeyResponse(user_api_key)
    /\ reply' = 200
    /\ UNCHANGED <<tasks, user_api_key, nextId, eng, requests, arg>>

KeyNext ==
    \/ \E key \in Secrets : SetKey(key)
    \/ CheckKey

\* the credential endpoints alone, with credentials of every length
KeySpec == Init /\ [][KeyNext]_vars

\* ------------------------------------------------- _execute_generation(j)
\* Top of the loop body, up to the await that sends the request; past the
\* last mirror, the writes after the loop.  With the record deleted, line 194
\* raises KeyError in every remaining iteration (caught) and line 275 raises
\* it outside any try: the coroutine ends with the exception.
LoopTop(j) ==
    /\ j \in DOMAIN eng
    /\ eng[j].pc = "loop"
    /\ LET e == eng[j] IN
       IF j \notin DOMAIN tasks
       THEN /\ eng' = [eng EXCEPT ![j] = Ended("raised")]
            /\ UNCHANGED <<tasks, requests>>
       ELSE IF e.host > NumHosts
       THEN /\ tasks' = [tasks EXCEPT ![j] = FailedRecord(@, e.last_error)]
            /\ eng' = [eng EXCEPT ![j] = Ended("finished")]
            /\ UNCHANGED requests
       ELSE /\ tasks' = [tasks EXCEPT ![j].progress = ProgressAttempt]
            /\ requests' = [requests EXCEPT
                              ![j] = Append(@, [host |-> e.host,
                                                 key |-> AttemptHeaders(e, user_api_key)])]
            /\ eng' = [eng EXCEPT ![j].pc = "connecting"]
    /\ UNCHANGED <<user_api_key, nextId, reply, out, arg>>

\* The response head arrives, or the transport fails.
Connect(j) ==
    /\ j \in DOMAIN eng
    /\ eng[j].pc = "connecting"
    /\ \E outcome \in {"exception", "api_error", "ok"} :
          eng' = [eng EXCEPT ![j] =
                    IF outcome = "ok"
                    THEN [@ EXCEPT !.pc = "streaming", !.content = 0, !.reads = 0]
                    ELSE NextHost(@, Reason(outcome, @.host))]
    /\ UNCHANGED <<tasks, user_api_key, nextId, requests, reply, out, arg>>

\* Chunk writing the progress with setdefault: a missing record is made anew
ChunkSetDefault(j, n) ==
    /\ j \in DOMAIN eng
    /\ eng[j].pc = "streaming"
    /\ eng[j].reads < MaxReads
    /\ LET bytes == eng[j].content + n * ChunkSize IN
       /\ tasks' = IF j \in DOMAIN tasks
                    THEN [tasks EXCEPT ![j].progress = StreamProgress(bytes)]
                    ELSE (j :> [NewTask(<<>>, 0) EXCEPT !.progress = StreamProgress(bytes)])
                         @@ tasks
       /\ eng' = [eng EXCEPT ![j].content = bytes, ![j].reads = @ + 1]
    /\ UNCHANGED <<user_api_key, nextId, requests, reply, out, arg>>

\* A read hands over n chunks: the loop body runs for each of them without
\* suspending, and the progress of the last one is what stays written.
Chunk(j, n) ==
    /\ j \in DOMAIN eng
    /\ eng[j].pc = "streaming"
    /\ eng[j].reads < MaxReads
    /\ LET bytes == eng[j].content + n * ChunkSize IN
       IF j \in DOMAIN tasks
       THEN /\ tasks' = [tasks EXCEPT ![j].progress = StreamProgress(bytes)]
            /\ eng' = [eng EXCEPT ![j].content = bytes, ![j].reads = @ + 1]
       ELSE /\ eng' = [eng EXCEPT ![j] = NextHost(@, Reason("KeyError", @.host))]
            /\ UNCHANGED tasks
    /\ UNCHANGED <<user_api_key, nextId, requests, reply, out, arg>>

\* The read of the next chunk fails (timeout, connection lost).
StreamFail(j) ==
    /\ j \in DOMAIN eng
    /\ eng[j].pc = "streaming"
    /\ eng' = [eng EXCEPT ![j] = NextHost(@, Reason("exception", @.host))]
    /\ UNCHANGED <<tasks, user_api_key, nextId, requests, reply, out, arg>>

\* The stream ends with `body` read: lines 219-267.
EndStream(j, body) ==
    /\ j \in DOMAIN eng
    /\ eng[j].pc = "streaming"
    /\ body \in Bodies(eng[j].host)
    /\ IF j \notin DOMAIN tasks
       THEN /\ eng' = [eng EXCEPT ![j] = NextHost(@, Reason("KeyError", @.host))]
            /\ UNCHANGED tasks
       ELSE LET c == Classify(body) IN
            /\ tasks' = [tasks EXCEPT ![j] =
                           IF c.class = "image"
                           THEN CompletedRecord(@, c.image, c.text)
                           ELSE [@ EXCEPT !.progress = ProgressParsed]]
            /\ eng' = [eng EXCEPT ![j] = AfterClassify(@, c)]
    /\ UNCHANGED <<user_api_key, nextId, requests, reply, out, arg>>

Engine(j) ==
    \/ LoopTop(j)
    \/ Connect(j)
    \/ \E n \in Bursts : Chunk(j, n)
    \/ StreamFail(j)
    \/ \E body \in AllBodies : EndStream(j, body)

Next ==
    \/ \E prompt \in Prompts : Submit(prompt)
    \/ \E id \in CallerIds : Poll(id)
    \/ List
    \/ \E id \in CallerIds : Delete(id)
    \/ \E key \in Keys : SetKey(key)
    \/ \E j \in JobIds : LoopTop(j)
    \/ \E j \in JobIds : Connect(j)
    \/ \E j \in JobIds, n \in Bursts : Chunk(j, n)
    \/ \E j \in JobIds : StreamFail(j)
    \/ \E j \in JobIds, body \in AllBodies : EndStream(j, body)

Spec == Init /\ [][Next]_vars

\* the event loop runs every coroutine that can run
LiveSpec == Spec /\ \A j \in JobIds : WF_vars(Engine(j))

\* ------------------------------------------------------------------ claims
Live(j) == j \in DOMAIN tasks /\ j \in DOMAIN tasks'

\* C1: the progress stored in a job record never decreases, whatever step
\* the engine takes (so no poll sees less than an earlier poll saw).
C1_ProgressNeverDecreases ==
    [][\A j \in JobIds : Live(j) => tasks'[j].progress >= tasks[j].progress]_vars

\* C2: in every interleaving with caller requests, the engine task ends by
\* writing a terminal status into its record and never ends with an
\* unhandled exception.
C2_EngineEndsTerminal ==
    \A j \in DOMAIN eng :
        /\ eng[j].pc # "raised"
        /\ eng[j].pc \in {"returned", "finished"} /\ j \in DOMAIN tasks
              => Terminal(tasks[j].status)

\* C3: when the first M mirrors fail and mirror M+1 answers with an image,
\* the job ends completed, with progress 100 and the image of mirror M+1.
HasImage(body) ==
    body.json /\ body.hasCandidates
    /\ \E i \in 1..Len(body.parts) : body.parts[i].kind = "inlineData"

ImageBodies == {b \in AllBodies : HasImage(b)}

C3_ImageStep ==
    \A j \in DOMAIN tasks :
        (eng[j].pc = "streaming" /\ eng'[j].pc # "streaming")
            => \A body \in ImageBodies :
                  EndStream(j, body)
                      => /\ eng'[j].pc = "returned"
                         /\ tasks'[j].status = "completed"

C3_ImageEnd ==
    \A j \in DOMAIN tasks :
        eng[j].pc = "returned"
            => /\ tasks[j].status = "completed"
               /\ tasks[j].progress = ProgressDone
               /\ tasks[j].result_base64 = DataUrl(ImagePart(Len(requests[j])))

C3_FailoverSuccess == []C3_ImageEnd /\ [][C3_ImageStep]_vars

C3_Witness ==
    \E j \in DOMAIN tasks :
        /\ eng[j].pc = "returned"
        /\ Len(requests[j]) = NumHosts
        /\ tasks[j].status = "completed"

\* C4: once an attempt of a job was classified as an image result, the
\* engine sends no further request for that job; nor does it send one once
\* the record was deleted, whatever the attempt in flight returns.
C4_NoAttemptAfterImage ==
    [][\A j \in DOMAIN eng :
          /\ (Live(j) /\ tasks[j].status # "completed" /\ tasks'[j].status = "completed")
                => eng'[j].pc = "returned"
          /\ eng[j].pc = "returned" => requests'[j] = requests[j]
          /\ j \notin DOMAIN tasks => requests'[j] = requests[j]]_vars

C4_Witness ==
    \E j \in DOMAIN eng :
        /\ eng[j].pc = "returned"
        /\ Len(requests[j]) < NumHosts
        /\ j \notin DOMAIN tasks

\* C5: when every attempt of a job fails, the job ends failed, its error is
\* the reason recorded for the last mirror tried, its result stays absent and
\* its progress stays at the last value written.
C5_FailStep ==
    \A j \in JobIds :
        (Live(j) /\ tasks[j].status # "failed" /\ tasks'[j].status = "failed")
            => /\ tasks'[j].error = eng[j].last_error
               /\ tasks'[j].progress = tasks[j].progress

C5_FailEnd ==
    \A j \in DOMAIN tasks :
        eng[j].pc = "finished"
            => /\ tasks[j].status = "failed"
               /\ tasks[j].error # None
               /\ tasks[j].error[2] = NumHosts
               /\ Len(requests[j]) = NumHosts
               /\ tasks[j].result_base64 = None
               /\ tasks[j].progress < ProgressDone

C5_AllFail == []C5_FailEnd /\ [][C5_FailStep]_vars

C5_Witness ==
    \E j \in DOMAIN tasks :
        /\ eng[j].pc = "finished"
        /\ tasks[j].status = "failed"
        /\ tasks[j].error = Reason("safety_blocked", NumHosts)
        /\ tasks[j].progress = ProgressParsed

\* C6: every job that was created and is not deleted eventually reaches
\* status completed or failed (under LiveSpec: the event loop keeps running
\* each coroutine, and every attempt ends).
C6_EventuallyTerminal ==
    \A j \in JobIds :
        (j \in DOMAIN tasks) ~> (j \notin DOMAIN tasks \/ Terminal(tasks[j].status))

C6_Witness ==
    \E j \in DOMAIN tasks :
        /\ Terminal(tasks[j].status)
        /\ Len(requests[j]) = NumHosts
        /\ reply = 200

\* C7: once a job is completed or failed, no step changes its record; the
\* record can only still be removed, and only by a delete of that job.
C7_TerminalImmutable ==
    [][\A j \in DOMAIN tasks :
          Terminal(tasks[j].status)
              => \/ j \in DOMAIN tasks' /\ tasks'[j] = tasks[j]
                 \/ j \notin DOMAIN tasks' /\ Delete(j)]_vars

C7_Witness ==
    \E j \in DOMAIN tasks :
        /\ Terminal(tasks[j].status)
        /\ eng[j].pc \in {"returned", "finished"}
        /\ user_api_key = <<>>
        /\ reply = 404

\* C8: in every reachable state a job's progress is 100 exactly when its
\* status is completed: never for a failed job, never for a processing job.
C8_Progress100IffCompleted ==
    \A j \in DOMAIN tasks :
        (tasks[j].progress = ProgressDone) <=> (tasks[j].status = "completed")

C8_Witness ==
    \E j \in DOMAIN tasks :
        /\ tasks[j].status = "failed"
        /\ tasks[j].progress = ProgressParsed
        /\ eng[j].pc = "finished"

\* C9: in every reachable state a record has a result exactly when it is
\* completed and an error exactly when it is failed.
C9_ResultErrorPresence ==
    \A j \in DOMAIN tasks :
        /\ (tasks[j].result_base64 # None) <=> (tasks[j].status = "completed")
        /\ (tasks[j].error # None) <=> (tasks[j].status = "failed")

C9_Witness ==
    \E j \in DOMAIN tasks :
        /\ tasks[j].status = "completed"
        /\ tasks[j].thinking # None
        /\ tasks[j].result_base64 # None

\* C10: a submission with an empty or whitespace-only prompt, or made while
\* no credential is set, is answered 400 and changes neither the job store
\* nor the set of engine tasks.
BadSubmission(prompt) ==
    \/ user_api_key = <<>>
    \/ \A i \in 1..Len(prompt) : prompt[i] \in Whitespace

C10_RejectedSubmission ==
    [][\A prompt \in Prompts :
          (Submit(prompt) /\ BadSubmission(prompt))
              => /\ reply' = 400
                 /\ tasks' = tasks
                 /\ eng' = eng
                 /\ requests' = requests
                 /\ nextId' = nextId]_vars

C10_Witness ==
    /\ reply = 400
    /\ user_api_key # <<>>
    /\ DOMAIN tasks = {1}
    /\ nextId = 2

\* needle is a contiguous substring of hay
Contains(hay, needle) ==
    \E i \in 0..(Len(hay) - Len(needle)) :
        SubSeq(hay, i + 1, i + Len(needle)) = needle

\* C11: a set-key(secret) followed by a check-key reports has_key = true and
\* a masked key that, for a secret longer than 12 characters, does not
\* contain the secret as a substring.  (Checked under KeySpec, where a
\* check-key that follows a set-key starts with reply = 200 and out = None.)
C11_SetThenCheck ==
    [][(reply = 200 /\ out = None /\ CheckKey)
          => /\ out'.has_key
             /\ Len(user_api_key) > MaskThreshold
                   => ~Contains(out'.masked_key, user_api_key)]_vars

\* the leak alone: non-empty secrets only
C11_MaskHidesSecret ==
    [][(reply = 200 /\ out = None /\ CheckKey /\ Len(user_api_key) > MaskThreshold)
          => ~Contains(out'.masked_key, user_api_key)]_vars

\* what the claim calls a well-formed data-URL image: data:<mime>;base64,<payload>
\* with an image MIME type and a payload
Base64At(img, k) ==
    /\ img[k] = ";base64,"
    /\ \A i \in 3..(k - 1) : img[i] # ";base64,"

IsImageDataUrl(img) ==
    /\ Len(img) >= 5
    /\ img[1] = "data:"
    /\ img[2] = "image/"
    /\ \E k \in 4..(Len(img) - 1) : Base64At(img, k)

AsInline(img) ==
    LET k == CHOOSE k \in 4..(Len(img) - 1) : Base64At(img, k) IN
    [kind |-> "inlineData", mimeType |-> SubSeq(img, 2, k - 1),
     data |-> SubSeq(img, k + 1, Len(img))]

RECURSIVE ReversedInline(_)
ReversedInline(images) ==
    IF images = <<>> THEN <<>>
    ELSE ReversedInline(Tail(images))
         \o (IF IsImageDataUrl(Head(images)) THEN <<AsInline(Head(images))>> ELSE <<>>)

\* C12: the parts of the built payload are the well-formed data-URL images
\* in reverse supply order, each as an inline-data part, then the prompt as
\* the single text part; every other entry contributes nothing.
C12_PayloadParts ==
    out # None
        => out = ReversedInline(arg.reference_images) \o <<TextPart(arg.prompt)>>

\* the same for requests whose images have a MIME subtype of word characters
C12_WordSubtypes ==
    (out # None /\ \A i \in 1..Len(arg.reference_images) :
                      arg.reference_images[i] # SvgUrl)
        => out = ReversedInline(arg.reference_images) \o <<TextPart(arg.prompt)>>

\* a job that was submitted and whose record is gone: records are removed by
\* delete only
Deleted(id) == id \in DOMAIN eng /\ id \notin DOMAIN tasks

C14_ListStep(limit) ==
    LET n == Cardinality(DOMAIN tasks)
        id(i) == out'[i].task_id
    IN  /\ Len(out') = Min(limit, n)
        /\ \A i \in 1..Len(out') :
              /\ id(i) \in DOMAIN tasks
              /\ out'[i] = Entry(id(i), tasks[id(i)])
        /\ \A i, j \in 1..Len(out') :
              i < j => tasks[id(i)].created_at > tasks[id(j)].created_at
        /\ \A t \in DOMAIN tasks : \A i \in 1..Len(out') :
              t \in {id(k) : k \in 1..Len(out')}
                  \/ tasks[t].created_at < tasks[id(i)].created_at
        /\ tasks' = tasks

C14_ListNewestFirst ==
    [][\A limit \in 0..(MaxListed + 1) :
          ListTasks(limit) => C14_ListStep(limit)]_vars

C14_Witness ==
    /\ DOMAIN tasks = {1, 2, 3}
    /\ \A j \in DOMAIN tasks : tasks[j].created_at = j
    /\ reply = 200
    /\ Len(out) = 2
    /\ out[1].task_id = 3
    /\ out[2].task_id = 2

\* C15: while a body is streamed the record's progress is within 30..90, and
\* after each read it is min(30 + floor(bytes * 60 / 50000), 90) for the
\* bytes read so far; progress becomes 95 only in the step that ends the
\* stream, and is 100 only together with status completed.
C15_Floor(p, bytes) ==
    /\ p \in ProgressAttempt..ProgressCap
    /\ p < ProgressCap
          => /\ BytesScale * (p - ProgressAttempt) <= bytes * ProgressSpan
             /\ bytes * ProgressSpan < BytesScale * (p - ProgressAttempt + 1)
    /\ p = ProgressCap
          => bytes * ProgressSpan >= BytesScale * (ProgressCap - ProgressAttempt)

C15_Streaming ==
    \A j \in DOMAIN tasks :
        /\ eng[j].pc = "streaming"
              => tasks[j].progress \in ProgressAttempt..ProgressCap
        /\ tasks[j].progress = ProgressDone => tasks[j].status = "completed"

C15_Step ==
    \A j \in JobIds :
        Live(j) =>
            /\ (eng[j].pc = "streaming" /\ eng'[j].pc = "streaming"
                   /\ eng'[j].content # eng[j].content)
                  => C15_Floor(tasks'[j].progress, eng'[j].content)
            /\ (tasks'[j].progress = ProgressParsed /\ tasks[j].progress # ProgressParsed)
                  => eng[j].pc = "streaming" /\ eng'[j].pc = "loop"

C15_StreamProgress == []C15_Streaming /\ [][C15_Step]_vars

C15_Witness ==
    \E j \in DOMAIN tasks :
        /\ eng[j].pc = "streaming"
        /\ eng[j].content > BytesScale
        /\ tasks[j].progress = ProgressCap

\* an attempt of job j is in flight: its request was sent and has not ended
InFlight(j) == eng[j].pc \in {"connecting", "streaming"}

\* C16: the requests of a job go to the mirrors in priority order, each
\* mirror at most once, and a request is sent only when no attempt of that
\* job is in flight; the attempt it starts is then the one in flight.
C16_Order ==
    \A j \in DOMAIN eng :
        /\ Len(requests[j]) <= NumHosts
        /\ \A i \in 1..Len(requests[j]) : requests[j][i].host = i
        /\ InFlight(j) => eng[j].host = Len(requests[j])

C16_Step ==
    \A j \in DOMAIN eng :
        requests'[j] # requests[j]
            => /\ ~InFlight(j)
               /\ eng'[j].pc = "connecting"
               /\ Len(requests'[j]) = Len(requests[j]) + 1
               /\ SubSeq(requests'[j], 1, Len(requests[j])) = requests[j]

C16_Interleaved ==
    \E j, k \in DOMAIN eng : j # k /\ InFlight(j) /\ InFlight(k)

\* the class the claim gives a decoded response
C17_Class(body) ==
    LET inline == \E i \in 1..Len(body.parts) : body.parts[i].kind = "inlineData"
        text == \E i \in 1..Len(body.parts) : body.parts[i].kind = "text"
    IN  IF ~body.hasCandidates /\ body.blockReason # "" THEN "safety_blocked"
        ELSE IF ~body.hasCandidates THEN "empty"
        ELSE IF inline THEN "image"
        ELSE IF text THEN "text_only"
        ELSE "malformed"

DecodedBodies == {b \in AllBodies : b.json}

\* C17: a decoded response is safety-blocked, empty, an image result,
\* text-only or malformed as the claim's rules say; an image result
\* completes the job, every other class leaves it processing, records the
\* class as the attempt's error and moves on to the next mirror.
C17_ClassifyStep ==
    \A j \in JobIds :
        (Live(j) /\ eng[j].pc = "streaming" /\ eng'[j].pc # "streaming")
            => \A body \in DecodedBodies :
                  EndStream(j, body)
                      => IF C17_Class(body) = "image"
                         THEN /\ tasks'[j].status = "completed"
                              /\ eng'[j].pc = "returned"
                         ELSE /\ tasks'[j].status = "processing"
                              /\ eng'[j].pc = "loop"
                              /\ eng'[j].host = eng[j].host + 1
                              /\ eng'[j].last_error = Reason(C17_Class(body), eng[j].host)

C17_Classification == [][C17_ClassifyStep]_vars

C17_Witness ==
    \E j \in DOMAIN tasks :
        /\ eng[j].pc = "loop"
        /\ eng[j].host = NumHosts
        /\ eng[j].last_error = Reason("text_only", 1)
        /\ tasks[j].status = "processing"
        /\ tasks[j].progress = ProgressParsed

\* C18: a stored record changes only in a step of the coroutine of its own
\* job, which changes no other record; poll and list change no record; and
\* there is one coroutine for each job ever created, and for nothing else.
C18_OneEngine ==
    /\ DOMAIN eng = 1..(nextId - 1)
    /\ DOMAIN tasks \subseteq DOMAIN eng

C18_Step ==
    /\ \A j \in JobIds :
          (Live(j) /\ tasks'[j] # tasks[j])
              => /\ eng[j].pc \in {"loop", "streaming"}
                 /\ eng'[j] # eng[j]
                 /\ \A k \in DOMAIN tasks \ {j} : k \in DOMAIN tasks' /\ tasks'[k] = tasks[k]
                 /\ \A k \in DOMAIN eng \ {j} : eng'[k] = eng[k]
    /\ \A id \in CallerIds : Poll(id) => tasks' = tasks
    /\ List => tasks' = tasks

C19_SameKey ==
    \A j \in DOMAIN eng :
        /\ \A i \in 1..Len(requests[j]) : requests[j][i].key = requests[j][1].key
        /\ (eng[j].pc \in {"loop", "connecting", "streaming"} /\ requests[j] # <<>>)
              => requests[j][1].key = eng[j].headers

C19_Step ==
    /\ \A j \in JobIds :
          /\ (j \notin DOMAIN eng /\ j \in DOMAIN eng')
                => eng'[j].headers = user_api_key
          /\ (j \in DOMAIN eng /\ eng'[j].pc \in {"loop", "connecting", "streaming"})
                => eng'[j].headers = eng[j].headers
          /\ (j \in DOMAIN eng /\ requests'[j] # requests[j])
                => requests'[j] = Append(requests[j],
                                         [host |-> eng[j].host, key |-> eng[j].headers])
    /\ user_api_key' # user_api_key => (eng' = eng /\ requests' = requests)

C19_KeyAtSubmission == []C19_SameKey /\ [][C19_Step]_vars

C19_Witness ==
    \E j \in DOMAIN eng :
        /\ user_api_key = <<>>
        /\ eng[j].pc = "connecting"
        /\ Len(requests[j]) = NumHosts
        /\ requests[j][NumHosts].key = <<"k", "1">>

\* C20: the record of a deleted job stays absent whatever step follows: a
\* step of its coroutine leaves the store as it is, a get of the id answers
\* 404, and no list of the store holds the id.
C20_NotListed ==
    \A id \in DOMAIN eng :
        Deleted(id)
            => LET listed == ListResponse(tasks, Cardinality(DOMAIN tasks)) IN
               \A i \in 1..Len(listed) : listed[i].task_id # id

C20_Step ==
    \A id \in JobIds :
        Deleted(id)
            => /\ id \notin DOMAIN tasks'
               /\ eng'[id] # eng[id] => tasks' = tasks
               /\ Poll(id) => reply' = 404

C20_DeletedStaysDeleted == []C20_NotListed /\ [][C20_Step]_vars

C20_Witness ==
    \E j \in DOMAIN eng :
        /\ Deleted(j)
        /\ eng[j].pc = "raised"
        /\ Len(requests[j]) = 1
        /\ eng[j].last_error = None

====
